---- MODULE Spec2Model ----
(***************************************************************************)
(* Form intake pipeline of backend-pkl: POST /api/penelitian and           *)
(* POST /api/magang of server.js (field validation, file validation,       *)
(* sequential uploads to the storage bucket, one Firestore add, one JSON   *)
(* response), and the first revision's POST /api/submit-form.              *)
(***************************************************************************)
EXTENDS Integers, Sequences, FiniteSets, TLC

VARIABLES
    rev,        \* the revision of the server that is running
    pc,         \* per connection: position in the route's middleware chain
    req,        \* per connection: the request (body, files, route), or NoReq
    res,        \* per connection: the response sent, or NoRes
    urls,       \* per connection: the handler's URL constants evaluated so far
    blob,       \* per connection: the blob whose write stream is open, or NoBlob
    bucket,     \* the objects of the storage bucket
    db,         \* the Firestore collections: path -> sequence of documents
    clock,      \* the Firestore server's clock
    uuids,      \* number of identifiers uuidv4() has handed out
    served,     \* number of requests received so far
    addLog,     \* history: one entry per add() call (request, path, outcome)
    putLog      \* history: one entry per write stream opened (request, slot, outcome)

vars == <<rev, pc, req, res, urls, blob, bucket, db, clock, uuids, served, addLog, putLog>>

----------------------------------------------------------------------------
(* Bounds of the model *)

\* requests received in one run
MaxRequests == 1

\* connections the server holds open at once
Conns == {1, 2}

\* the two clients whose form values and file names differ
Clients == {"a", "b"}

----------------------------------------------------------------------------
(* JavaScript values *)

Undefined == [t |-> "undefined", v |-> ""]
Null == [t |-> "null", v |-> ""]
Str(s) == [t |-> "string", v |-> s]
Timestamp(n) == [t |-> "timestamp", v |-> ToString(n)]

\* mutant of Truthy: the test  req.body[field] === undefined
TruthyNotUndefined(x) == x # Undefined

\* !x is false: x is none of undefined, null, ""
Truthy(x) == x \notin {Undefined, Null, Str("")}

NoReq == [route |-> "none"]
NoRes == [status |-> 0, message |-> ""]
NoBlob == [name |-> "", contentType |-> ""]
NoFile == [mimetype |-> "", originalname |-> "", size |-> 0]

Range(s) == {s[i] : i \in 1..Len(s)}

----------------------------------------------------------------------------
(* The routes and their schemas *)

Strict == "server.js"
Oldest == "submit-form"
Lenient == "server.txt"

Penelitian == "/api/penelitian"
Magang == "/api/magang"
SubmitForm == "/api/submit-form"

\* the two routes as server.txt defines them
LenientPenelitian == "/api/penelitian (server.txt)"
LenientMagang == "/api/magang (server.txt)"

Routes(rv) ==
    CASE rv = Strict -> {Penelitian, Magang}
      [] rv = Lenient -> {LenientPenelitian, LenientMagang}
      [] OTHER -> {SubmitForm}

ResearchRequiredFields ==
    << "letterNumber", "name", "researcherName", "address", "inputValue",
       "institution", "occupation", "judulPenelitian", "researchField",
       "tujuanPenelitian", "supervisorName", "teamMembers", "statusPenelitian",
       "researchPeriod", "researchLocation" >>

InternshipRequiredFields ==
    << "letterNumber", "applicantsName", "address", "inputValue", "institution",
       "occupation", "judul", "supervisorName", "tujuanPermohonan", "teamMembers",
       "statusPermohonan", "period", "location" >>

SubmitFormRequiredFields ==
    << "researcherName", "address", "inputValue", "institution", "occupation",
       "judulPenelitian", "researchField", "tujuanPenelitian", "supervisorName" >>

\* the fields the first revision's handler takes from req.body
SubmitFormRecordFields ==
    << "name", "researcherName", "address", "inputValue", "institution",
       "occupation", "judulPenelitian", "researchField", "tujuanPenelitian",
       "supervisorName", "teamMembers", "statusPenelitian", "researchPeriod",
       "researchLocation" >>

\* requiredFields of server.txt's validateResearchForm and validateInternshipForm,
\* which are also the names its handlers destructure
LenientResearchRequiredFields ==
    << "name", "researcherName", "address", "inputValue", "institution",
       "occupation", "judulPenelitian", "researchField", "tujuanPenelitian",
       "supervisorName", "teamMembers", "statusPenelitian", "researchPeriod",
       "researchLocation" >>

LenientInternshipRequiredFields ==
    << "letterNumber", "name", "address", "inputValue", "institution",
       "occupation", "judul", "supervisorName", "tujuanPermohonan", "teamMembers",
       "statusPermohonan", "period", "location" >>

requiredFields(route) ==
    CASE route = Penelitian -> ResearchRequiredFields
      [] route = Magang -> InternshipRequiredFields
      [] route = LenientPenelitian -> LenientResearchRequiredFields
      [] route = LenientMagang -> LenientInternshipRequiredFields
      [] OTHER -> SubmitFormRequiredFields

\* the names the handler destructures from req.body, which are the document's fields
recordFields(route) ==
    CASE route = Penelitian -> ResearchRequiredFields
      [] route = Magang -> InternshipRequiredFields
      [] route = LenientPenelitian -> LenientResearchRequiredFields
      [] route = LenientMagang -> LenientInternshipRequiredFields
      [] OTHER -> SubmitFormRecordFields

ResearchRequiredFiles == << "suratPengantarFile", "proposalFile", "ktpFile" >>
InternshipRequiredFiles == << "suratPermohonanFile", "proposalFile", "ktpFile" >>

\* the slots of upload.fields([...]) in server.txt, the same on both routes
LenientFiles == << "suratPermohonan", "proposal", "fotocopy" >>

\* upload.fields([...]) of the route: the file slots, in the handler's upload order
fileSlots(route) ==
    CASE route = Magang -> InternshipRequiredFiles
      [] route \in {LenientPenelitian, LenientMagang} -> LenientFiles
      [] OTHER -> ResearchRequiredFiles

\* the document's URL field of each file slot
urlFields(route) ==
    CASE route = Penelitian -> << "suratPengantarUrl", "proposalUrl", "ktpUrl" >>
      [] route = Magang -> << "suratPermohonanUrl", "proposalUrl", "ktpUrl" >>
      [] OTHER -> << "suratPermohonanUrl", "proposalUrl", "fotocopyKTPUrl" >>

\* mutant of collectionPath: both handlers add to the research collection
collectionPathShared(route) == "pelayanan/penelitian/data"


collectionPath(route) ==
    IF route \in {Magang, LenientMagang}
    THEN "pelayanan/magang/magang" ELSE "pelayanan/penelitian/data"

Paths == {"pelayanan/penelitian/data", "pelayanan/magang/magang"}

\* whether the revision's document literal has a timestamp field
hasTimestamp(rv) == rv \in {Strict, Lenient}

allowedMimeTypes == {"application/pdf", "image/jpeg", "image/png"}

\* limits.fileSize of the multer configuration: 10 * 1024 * 1024
fileSize == 10485760

bucketName == "govservice-2024.appspot.com"

----------------------------------------------------------------------------
(* The requests a client can send *)

\* every key a body of the route may carry: the form's fields, and keys that
\* collide with the document's server-side fields
bodyKeys(route) ==
    Range(requiredFields(route)) \cup Range(recordFields(route))
        \cup Range(urlFields(route)) \cup {"timestamp"}

\* the file names of the two clients (originalname)
fileNameOf(client) == IF client = "a" THEN "a.pdf" ELSE "b cv.pdf"

\* A request is the complete form of its client (every field filled, a PDF in
\* every slot, multipart) changed in at most two ways. The ways:
\*   field f absent or empty; slot s without file, with an executable, with a
\*   file above the size limit, or with an executable above the size limit;
\*   every file a JPEG or a PNG; the body sent as
\*   JSON instead of multipart; extra body keys "timestamp" and "<slot>Url".
NoMod == [k |-> "none", f |-> "", v |-> ""]
AsJson == [k |-> "json", f |-> "", v |-> ""]
Spoof == [k |-> "spoof", f |-> "", v |-> ""]

Mods(route) ==
    {[k |-> "field", f |-> f, v |-> v] :
        f \in Range(requiredFields(route)) \cup Range(recordFields(route)),
        v \in {"absent", "empty"}}
    \cup {[k |-> "slot", f |-> s, v |-> v] :
        s \in Range(fileSlots(route)),
        v \in {"none", "big", "application/x-msdownload", "big executable"}}
    \cup {[k |-> "mime", f |-> "", v |-> v] : v \in {"image/jpeg", "image/png"}}
    \cup {AsJson, Spoof, NoMod}

formBody(route, client, mods) ==
    [key \in bodyKeys(route) |->
        IF [k |-> "field", f |-> key, v |-> "absent"] \in mods THEN Undefined
        ELSE IF [k |-> "field", f |-> key, v |-> "empty"] \in mods THEN Str("")
        ELSE IF key \in Range(requiredFields(route)) \cup Range(recordFields(route))
            THEN Str(client \o ":" \o key)
        ELSE IF Spoof \in mods THEN Str(client \o ":" \o key)
        ELSE Undefined]

formFile(client, slot, mods) ==
    LET ms == {m \in mods : m.k = "slot" /\ m.f = slot}
        m == IF ms = {} THEN NoMod ELSE CHOOSE x \in ms : TRUE
        ts == {x \in mods : x.k = "mime"}
        type == IF ts = {} THEN "application/pdf" ELSE (CHOOSE x \in ts : TRUE).v
    IN  IF AsJson \in mods \/ m.v = "none" THEN NoFile
        ELSE [mimetype |-> IF m.v \in {"", "big"} THEN type
                           ELSE IF m.v = "big executable" THEN "application/x-msdownload"
                           ELSE m.v,
              originalname |-> fileNameOf(client),
              size |-> IF m.v \in {"big", "big executable"} THEN fileSize + 1 ELSE 1024]

\* req.files[slot] is files[i] for the route's i-th slot; NoFile: the key is absent
formRequest(route, client, mods, no) ==
    [route |-> route,
     no |-> no,
     multipart |-> AsJson \notin mods,
     body |-> formBody(route, client, mods),
     files |-> [i \in 1..3 |-> formFile(client, fileSlots(route)[i], mods)]]

----------------------------------------------------------------------------
(* The middleware and the upload helper, as functions of the request *)

Min(S) == CHOOSE x \in S : \A y \in S : x <= y

Json(status, message) == [status |-> status, message |-> message]

\* what Express answers when a middleware throws or calls next(err)
errorHandler == Json(500, "Internal Server Error")

Respond(r) == [outcome |-> "respond", res |-> r]
CallNext == [outcome |-> "next", res |-> NoRes]
Throw == [outcome |-> "throw", res |-> errorHandler]

\* mutant of validateFields: the loop runs to its end and answers for the last
\* field that is missing
validateFieldsLast(fields, body) ==
    LET missing == {i \in 1..Len(fields) : body[fields[i]] \in {Undefined, Null, Str("")}}
    IN  IF missing = {} THEN CallNext
        ELSE Respond(Json(400,
                fields[CHOOSE i \in missing : \A j \in missing : j <= i] \o " is required"))


\* for (const field of requiredFields) if (!req.body[field]) return res.status(400)...
validateFields(fields, body) ==
    LET missing == {i \in 1..Len(fields) : ~Truthy(body[fields[i]])}
    IN  IF missing = {} THEN CallNext
        ELSE Respond(Json(400, fields[Min(missing)] \o " is required"))

validateResearchForm(r) == validateFields(ResearchRequiredFields, r.body)

validateInternshipForm(r) == validateFields(InternshipRequiredFields, r.body)

validateForm(r) == validateFields(SubmitFormRequiredFields, r.body)

\* the two field validators of server.txt
validateLenientResearchForm(r) == validateFields(LenientResearchRequiredFields, r.body)

validateLenientInternshipForm(r) == validateFields(LenientInternshipRequiredFields, r.body)

\* mutant of fileFault: the check of the presence alone
fileFaultPresenceOnly(file) == IF file = NoFile THEN 1 ELSE 0

\* the check of one slot: 0 passes, 1 "is required", 2 "must be a PDF, JPEG, or PNG"
fileFault(file) ==
    IF file = NoFile THEN 1
    ELSE IF file.mimetype \notin allowedMimeTypes THEN 2
    ELSE 0

\* mutant of validateFiles: a loop that keeps going and answers for the last fault
validateFilesLast(slots, r) ==
    LET bad == {i \in 1..Len(slots) : r.files[i] = NoFile
                    \/ r.files[i].mimetype \notin allowedMimeTypes}
        i == CHOOSE x \in bad : \A y \in bad : y <= x
    IN  IF ~r.multipart THEN Throw
        ELSE IF bad = {} THEN CallNext
        ELSE IF r.files[i] = NoFile
            THEN Respond(Json(400, "File " \o slots[i] \o " is required"))
        ELSE Respond(Json(400, "File " \o slots[i] \o " must be a PDF, JPEG, or PNG"))

\* mutant of validateFiles: one loop checks the type of every file that is
\* there, a second loop the presence
validateFilesTypeFirst(slots, r) ==
    LET wrong == {i \in 1..Len(slots) : r.files[i] # NoFile
                    /\ r.files[i].mimetype \notin allowedMimeTypes}
        absent == {i \in 1..Len(slots) : r.files[i] = NoFile}
    IN  IF ~r.multipart THEN Throw
        ELSE IF wrong # {}
            THEN Respond(Json(400, "File " \o slots[Min(wrong)] \o " must be a PDF, JPEG, or PNG"))
        ELSE IF absent # {}
            THEN Respond(Json(400, "File " \o slots[Min(absent)] \o " is required"))
        ELSE CallNext


\* mutant of validateFiles: a slot without file is passed over, as in the
\* revisions without file validator
validateFilesOptional(slots, r) ==
    LET wrong == {i \in 1..Len(slots) : r.files[i] # NoFile
                    /\ r.files[i].mimetype \notin allowedMimeTypes}
    IN  IF ~r.multipart THEN Throw
        ELSE IF wrong # {}
            THEN Respond(Json(400, "File " \o slots[Min(wrong)] \o " must be a PDF, JPEG, or PNG"))
        ELSE CallNext


\* for (const file of requiredFiles): req.files[file] throws a TypeError when
\* req.files is undefined, which it is unless multer parsed a multipart body
validateFiles(slots, r) ==
    LET bad == {i \in 1..Len(slots) : fileFault(r.files[i]) # 0}
        i == Min(bad)
    IN  IF ~r.multipart THEN Throw
        ELSE IF bad = {} THEN CallNext
        ELSE IF fileFault(r.files[i]) = 1
            THEN Respond(Json(400, "File " \o slots[i] \o " is required"))
        ELSE Respond(Json(400, "File " \o slots[i] \o " must be a PDF, JPEG, or PNG"))

validateResearchFiles(r) == validateFiles(ResearchRequiredFiles, r)

\* mutant of validateInternshipFiles: the internship validator answers for the
\* last slot that fails
validateInternshipFilesLast(r) == validateFilesLast(InternshipRequiredFiles, r)


validateInternshipFiles(r) == validateFiles(InternshipRequiredFiles, r)

\* mutant of upload: a multer configured without limits
uploadNoLimit(r) == CallNext


\* upload.fields(...) with limits.fileSize: a multipart body with a file above the
\* limit ends in next(err); a body that is not multipart passes through unparsed
upload(r) ==
    IF r.multipart /\ \E i \in 1..3 : r.files[i] # NoFile /\ r.files[i].size > fileSize
    THEN Throw
    ELSE CallNext

\* encodeURIComponent on the file names of the model
encodeURIComponent(name) == IF name = "b cv.pdf" THEN "b%20cv.pdf" ELSE name

\* mutant of blobName: the object is named by the original filename alone
blobNameBare(n, file) == file.originalname


\* `${uuidv4()}_${file.originalname}`, with the n-th identifier written n
blobName(n, file) == ToString(n) \o "_" \o file.originalname

\* the URL the finish callback builds from bucket.name and blob.name
publicUrl(n, file) ==
    Str("https://firebasestorage.googleapis.com/v0/b/" \o bucketName \o "/o/"
        \o ToString(n) \o "_" \o encodeURIComponent(file.originalname) \o "?alt=media")

\* the URL server.txt builds: `https://storage.googleapis.com/${bucket.name}/${blob.name}`
publicUrlPlain(n, file) ==
    Str("https://storage.googleapis.com/" \o bucketName \o "/"
        \o ToString(n) \o "_" \o file.originalname)

\* mutant of hasFile: a file of a type the other revision refuses counts as absent
hasFileOfAllowedType(r, i) ==
    r.multipart /\ r.files[i] # NoFile /\ r.files[i].mimetype \in allowedMimeTypes


\* mutant of hasFile: the first slot read under the key of another revision
hasFileWrongKey(r, i) == i # 1 /\ r.multipart /\ r.files[i] # NoFile

\* the condition of  req.files.<slot> ? await uploadFileToFirebase(...) : null
\* (req.files?.<slot>?.[0] in the first revision)
hasFile(r, i) == r.multipart /\ r.files[i] # NoFile

\* mutant of document: proposalUrl and ktpUrl take each other's constant
documentSwapped(rv, r, u, now) ==
    LET fields == recordFields(r.route)
        names == urlFields(r.route)
        keys == Range(fields) \cup Range(names)
                    \cup (IF rv = "server.js" THEN {"timestamp"} ELSE {})
        v == << u[1], u[3], u[2] >>
    IN  [key \in keys |->
            IF \E i \in 1..3 : names[i] = key
                THEN v[CHOOSE i \in 1..3 : names[i] = key]
            ELSE IF key \in Range(fields) THEN r.body[key]
            ELSE Timestamp(now)]

\* mutant of document: the URL constants live in variables shared by all
\* requests, so each URL field takes the URL of the latest upload stored for its slot
documentSharedUrls(rv, r, u, now) ==
    LET fields == recordFields(r.route)
        names == urlFields(r.route)
        keys == Range(fields) \cup Range(names)
                    \cup (IF rv = "server.js" THEN {"timestamp"} ELSE {})
        latest(k) ==
            LET js == {j \in 1..Len(putLog) : putLog[j].slot = k /\ putLog[j].state = "stored"}
            IN  IF js = {} THEN Null
                ELSE putLog[CHOOSE j \in js : \A x \in js : x <= j].url
    IN  [key \in keys |->
            IF \E i \in 1..3 : names[i] = key
                THEN latest(CHOOSE i \in 1..3 : names[i] = key)
            ELSE IF key \in Range(fields) THEN r.body[key]
            ELSE Timestamp(now)]


\* the object literal passed to add(): the destructured body fields, the three
\* URL constants, and FieldValue.serverTimestamp() resolved by the server to now
document(rv, r, u, now) ==
    LET fields == recordFields(r.route)
        names == urlFields(r.route)
        keys == Range(fields) \cup Range(names)
                    \cup (IF hasTimestamp(rv) THEN {"timestamp"} ELSE {})
    IN  [key \in keys |->
            IF \E i \in 1..3 : names[i] = key
                THEN u[CHOOSE i \in 1..3 : names[i] = key]
            ELSE IF key \in Range(fields) THEN r.body[key]
            ELSE Timestamp(now)]

Saved == Json(200, "Data berhasil disimpan")
Failed == Json(500, "Terjadi kesalahan saat menyimpan data")

----------------------------------------------------------------------------
(* The server *)

Init ==
    /\ rev = Strict
    /\ pc = [c \in Conns |-> "idle"]
    /\ req = [c \in Conns |-> NoReq]
    /\ res = [c \in Conns |-> NoRes]
    /\ urls = [c \in Conns |-> << >>]
    /\ blob = [c \in Conns |-> NoBlob]
    /\ bucket = {}
    /\ db = [p \in Paths |-> << >>]
    /\ clock = 1
    /\ uuids = 0
    /\ served = 0
    /\ addLog = << >>
    /\ putLog = << >>

Busy(c) == pc[c] # "idle"

\* res.status(..).json(..): the response ends the request
Send(c, r) ==
    /\ res' = [res EXCEPT ![c] = r]
    /\ pc' = [pc EXCEPT ![c] = "done"]

\* the outcome of a middleware: a response, an error for Express, or next()
Continue(c, result, next) ==
    IF result.outcome = "next"
    THEN pc' = [pc EXCEPT ![c] = next] /\ UNCHANGED res
    ELSE Send(c, result.res)

\* A request arrives on a free connection; the server takes one at a time.
Receive(c) ==
    /\ served < MaxRequests
    /\ \A d \in Conns : ~Busy(d)
    /\ c = Min(Conns)
    /\ \E route \in Routes(rev), client \in Clients :
        \E m1 \in Mods(route), m2 \in Mods(route) :
            req' = [req EXCEPT ![c] = formRequest(route, client, {m1, m2}, served + 1)]
    /\ served' = served + 1
    /\ pc' = [pc EXCEPT ![c] = "upload"]
    /\ res' = [res EXCEPT ![c] = NoRes]
    /\ urls' = [urls EXCEPT ![c] = << >>]
    /\ UNCHANGED <<rev, blob, bucket, db, clock, uuids, addLog, putLog>>

\* mutant of Multer: the chain lists the file validator before the field validator
MulterThenFiles(c) ==
    /\ pc[c] = "upload"
    /\ Continue(c, upload(req[c]), "validateFiles")
    /\ UNCHANGED <<rev, req, urls, blob, bucket, db, clock, uuids, served, addLog, putLog>>


\* first middleware of the route: upload.fields([...])
Multer(c) ==
    /\ pc[c] = "upload"
    /\ Continue(c, upload(req[c]), "validateForm")
    /\ UNCHANGED <<rev, req, urls, blob, bucket, db, clock, uuids, served, addLog, putLog>>

\* second middleware: the route's field validator
ValidateForm(c) ==
    /\ pc[c] = "validateForm"
    /\ Continue(c,
            CASE req[c].route = Penelitian -> validateResearchForm(req[c])
              [] req[c].route = Magang -> validateInternshipForm(req[c])
              [] req[c].route = LenientPenelitian -> validateLenientResearchForm(req[c])
              [] req[c].route = LenientMagang -> validateLenientInternshipForm(req[c])
              [] OTHER -> validateForm(req[c]),
            IF rev = Strict THEN "validateFiles" ELSE "handler")
    /\ UNCHANGED <<rev, req, urls, blob, bucket, db, clock, uuids, served, addLog, putLog>>

\* third middleware of server.js: the route's file validator
ValidateFiles(c) ==
    /\ pc[c] = "validateFiles"
    /\ Continue(c,
            IF req[c].route = Magang THEN validateInternshipFiles(req[c])
            ELSE validateResearchFiles(req[c]),
            "handler")
    /\ UNCHANGED <<rev, req, urls, blob, bucket, db, clock, uuids, served, addLog, putLog>>

\* The handler evaluates its next URL constant. With a file in the slot,
\* uploadFileToFirebase names a blob, opens its write stream and ends it with the
\* file's buffer, and the handler awaits; without one the constant is null.
\* In server.js reading a slot of an undefined req.files throws inside the try.
UploadStart(c) ==
    LET i == Len(urls[c]) + 1
        r == req[c]
    IN  /\ pc[c] = "handler"
        /\ i <= 3
        /\ IF rev = Strict /\ ~r.multipart
           THEN /\ Send(c, Failed)
                /\ UNCHANGED <<urls, blob, uuids, putLog>>
           ELSE IF hasFile(r, i)
           THEN /\ uuids' = uuids + 1
                /\ blob' = [blob EXCEPT ![c] =
                        [name |-> blobName(uuids + 1, r.files[i]),
                         contentType |-> r.files[i].mimetype]]
                /\ putLog' = Append(putLog,
                        [no |-> r.no, slot |-> i, name |-> blobName(uuids + 1, r.files[i]),
                         url |-> IF rev = Lenient THEN publicUrlPlain(uuids + 1, r.files[i])
                                 ELSE publicUrl(uuids + 1, r.files[i]),
                         state |-> "open"])
                /\ pc' = [pc EXCEPT ![c] = "uploading"]
                /\ UNCHANGED <<urls, res>>
           ELSE /\ urls' = [urls EXCEPT ![c] = Append(@, Null)]
                /\ UNCHANGED <<pc, res, blob, uuids, putLog>>
        /\ UNCHANGED <<rev, req, bucket, db, clock, served, addLog>>

\* history: the entry of the write stream connection c has open
OpenPut(c) == CHOOSE i \in 1..Len(putLog) : putLog[i].no = req[c].no /\ putLog[i].state = "open"

\* history: the entry of the add() call connection c awaits
PendingAdd(c) ==
    CHOOSE i \in 1..Len(addLog) : addLog[i].no = req[c].no /\ addLog[i].state = "pending"

\* mutant of UploadFinish: the finish callback stores the object and does not
\* resolve the promise, so the handler's await never returns
UploadFinishNoResolve(c) ==
    /\ pc[c] = "uploading"
    /\ bucket' = {b \in bucket : b.name # blob[c].name} \cup {blob[c]}
    /\ putLog' = [putLog EXCEPT ![OpenPut(c)].state = "stored"]
    /\ blob' = [blob EXCEPT ![c] = NoBlob]
    /\ pc' = [pc EXCEPT ![c] = "hung"]
    /\ UNCHANGED <<rev, req, res, urls, db, clock, uuids, served, addLog>>


\* blobStream 'finish': the object is stored and the promise resolves to its URL
UploadFinish(c) ==
    /\ pc[c] = "uploading"
    /\ bucket' = {b \in bucket : b.name # blob[c].name} \cup {blob[c]}
    /\ urls' = [urls EXCEPT ![c] = Append(@, putLog[OpenPut(c)].url)]
    /\ putLog' = [putLog EXCEPT ![OpenPut(c)].state = "stored"]
    /\ blob' = [blob EXCEPT ![c] = NoBlob]
    /\ pc' = [pc EXCEPT ![c] = "handler"]
    /\ UNCHANGED <<rev, req, res, db, clock, uuids, served, addLog>>

\* mutant of UploadError: the helper swallows the error and resolves to null
UploadErrorSwallowed(c) ==
    /\ pc[c] = "uploading"
    /\ blob' = [blob EXCEPT ![c] = NoBlob]
    /\ putLog' = [putLog EXCEPT ![OpenPut(c)].state = "failed"]
    /\ urls' = [urls EXCEPT ![c] = Append(@, Null)]
    /\ pc' = [pc EXCEPT ![c] = "handler"]
    /\ UNCHANGED <<rev, req, res, bucket, db, clock, uuids, served, addLog>>

\* mutant of UploadError: the catch tells which step failed
UploadErrorNamed(c) ==
    /\ pc[c] = "uploading"
    /\ blob' = [blob EXCEPT ![c] = NoBlob]
    /\ putLog' = [putLog EXCEPT ![OpenPut(c)].state = "failed"]
    /\ Send(c, Json(500, "Terjadi kesalahan saat mengunggah file"))
    /\ UNCHANGED <<rev, req, urls, bucket, db, clock, uuids, served, addLog>>


\* mutant of UploadError: a failed upload is tried once more
UploadErrorRetry(c) ==
    /\ pc[c] = "uploading"
    /\ blob' = [blob EXCEPT ![c] = NoBlob]
    /\ putLog' = [putLog EXCEPT ![OpenPut(c)].state = "failed"]
    /\ IF Cardinality({i \in 1..Len(putLog) : putLog[i].no = req[c].no
                            /\ putLog[i].slot = putLog[OpenPut(c)].slot}) < 2
       THEN pc' = [pc EXCEPT ![c] = "handler"] /\ UNCHANGED res
       ELSE Send(c, Failed)
    /\ UNCHANGED <<rev, req, urls, bucket, db, clock, uuids, served, addLog>>


\* blobStream 'error': the promise rejects, the handler's catch answers 500
UploadError(c) ==
    /\ pc[c] = "uploading"
    /\ blob' = [blob EXCEPT ![c] = NoBlob]
    /\ putLog' = [putLog EXCEPT ![OpenPut(c)].state = "failed"]
    /\ Send(c, Failed)
    /\ UNCHANGED <<rev, req, urls, bucket, db, clock, uuids, served, addLog>>

\* mutant of AddCall: the add is called once two of the URL constants are there
AddCallEarly(c) ==
    /\ pc[c] = "handler"
    /\ Len(urls[c]) \in {2, 3}
    /\ pc' = [pc EXCEPT ![c] = "adding"]
    /\ addLog' = Append(addLog,
            [no |-> req[c].no, path |-> collectionPath(req[c].route),
             state |-> "pending", at |-> 0, index |-> 0])
    /\ UNCHANGED <<rev, req, res, urls, blob, bucket, db, clock, uuids, served, putLog>>


\* the handler calls db.collection(..)...add({...}) and awaits
AddCall(c) ==
    /\ pc[c] = "handler"
    /\ Len(urls[c]) = 3
    /\ pc' = [pc EXCEPT ![c] = "adding"]
    /\ addLog' = Append(addLog,
            [no |-> req[c].no, path |-> collectionPath(req[c].route),
             state |-> "pending", at |-> 0, index |-> 0])
    /\ UNCHANGED <<rev, req, res, urls, blob, bucket, db, clock, uuids, served, putLog>>

\* mutant of AddResolve: the document is added twice
AddResolveTwice(c) ==
    LET path == collectionPath(req[c].route)
        data == document(rev, req[c], urls[c], clock)
    IN  /\ pc[c] = "adding"
        /\ db' = [db EXCEPT ![path] = Append(Append(@, data), data)]
        /\ addLog' = [addLog EXCEPT ![PendingAdd(c)] =
                [@ EXCEPT !.state = "written", !.at = clock, !.index = Len(db[path]) + 1]]
        /\ clock' = clock + 1
        /\ Send(c, Saved)
        /\ UNCHANGED <<rev, req, urls, blob, bucket, uuids, served, putLog>>

\* mutant of AddResolve: a document with the letterNumber of one in the
\* collection replaces it instead of being appended
AddResolveMerge(c) ==
    LET path == collectionPath(req[c].route)
        data == document(rev, req[c], urls[c], clock)
        same == {i \in 1..Len(db[path]) : db[path][i]["letterNumber"] = data["letterNumber"]}
    IN  /\ pc[c] = "adding"
        /\ db' = [db EXCEPT ![path] =
                    IF same = {} THEN Append(@, data)
                    ELSE [@ EXCEPT ![CHOOSE i \in same : TRUE] = data]]
        /\ addLog' = [addLog EXCEPT ![PendingAdd(c)] =
                [@ EXCEPT !.state = "written", !.at = clock,
                          !.index = IF same = {} THEN Len(db[path]) + 1
                                    ELSE CHOOSE i \in same : TRUE]]
        /\ clock' = clock + 1
        /\ Send(c, Saved)
        /\ UNCHANGED <<rev, req, urls, blob, bucket, uuids, served, putLog>>


\* the add resolves: the document is in the collection, then res.json(..)
AddResolve(c) ==
    LET path == collectionPath(req[c].route)
        data == document(rev, req[c], urls[c], clock)
    IN  /\ pc[c] = "adding"
        /\ db' = [db EXCEPT ![path] = Append(@, data)]
        /\ addLog' = [addLog EXCEPT ![PendingAdd(c)] =
                [@ EXCEPT !.state = "written", !.at = clock, !.index = Len(db[path]) + 1]]
        /\ clock' = clock + 1
        /\ Send(c, Saved)
        /\ UNCHANGED <<rev, req, urls, blob, bucket, uuids, served, putLog>>

\* mutant of AddReject: a rejected add is tried once more
AddRejectRetry(c) ==
    /\ pc[c] = "adding"
    /\ addLog' = [addLog EXCEPT ![PendingAdd(c)].state = "rejected"]
    /\ IF Cardinality({i \in 1..Len(addLog) : addLog[i].no = req[c].no}) < 2
       THEN pc' = [pc EXCEPT ![c] = "handler"] /\ UNCHANGED res
       ELSE Send(c, Failed)
    /\ UNCHANGED <<rev, req, urls, blob, bucket, db, clock, uuids, served, putLog>>

\* mutant of AddReject: the catch undoes the latest document of the collection
AddRejectTruncate(c) ==
    LET path == collectionPath(req[c].route)
    IN  /\ pc[c] = "adding"
        /\ addLog' = [addLog EXCEPT ![PendingAdd(c)].state = "rejected"]
        /\ db' = [db EXCEPT ![path] = SubSeq(@, 1, Len(@) - 1)]
        /\ Send(c, Failed)
        /\ UNCHANGED <<rev, req, urls, blob, bucket, clock, uuids, served, putLog>>


\* the add rejects: the handler's catch answers 500
AddReject(c) ==
    /\ pc[c] = "adding"
    /\ addLog' = [addLog EXCEPT ![PendingAdd(c)].state = "rejected"]
    /\ Send(c, Failed)
    /\ UNCHANGED <<rev, req, urls, blob, bucket, db, clock, uuids, served, putLog>>

\* the response is out: the connection and its request object are released
Close(c) ==
    /\ pc[c] = "done"
    /\ pc' = [pc EXCEPT ![c] = "idle"]
    /\ req' = [req EXCEPT ![c] = NoReq]
    /\ res' = [res EXCEPT ![c] = NoRes]
    /\ urls' = [urls EXCEPT ![c] = << >>]
    /\ UNCHANGED <<rev, blob, bucket, db, clock, uuids, served, addLog, putLog>>

Next ==
    \E c \in Conns :
        \/ Receive(c)
        \/ Multer(c)
        \/ ValidateForm(c)
        \/ ValidateFiles(c)
        \/ UploadStart(c)
        \/ UploadFinish(c)
        \/ UploadError(c)
        \/ AddCall(c)
        \/ AddResolve(c)
        \/ AddReject(c)
        \/ Close(c)

Spec == Init /\ [][Next]_vars

\* The first revision: POST /api/submit-form, whose chain has no file validator
InitOldest ==
    /\ rev = Oldest
    /\ pc = [c \in Conns |-> "idle"]
    /\ req = [c \in Conns |-> NoReq]
    /\ res = [c \in Conns |-> NoRes]
    /\ urls = [c \in Conns |-> << >>]
    /\ blob = [c \in Conns |-> NoBlob]
    /\ bucket = {}
    /\ db = [p \in Paths |-> << >>]
    /\ clock = 1
    /\ uuids = 0
    /\ served = 0
    /\ addLog = << >>
    /\ putLog = << >>

NextOldest ==
    \E c \in Conns :
        \/ Receive(c)
        \/ Multer(c)
        \/ ValidateForm(c)
        \/ UploadStart(c)
        \/ UploadFinish(c)
        \/ UploadError(c)
        \/ AddCall(c)
        \/ AddResolve(c)
        \/ AddReject(c)
        \/ Close(c)

SpecOldest == InitOldest /\ [][NextOldest]_vars

\* server.txt: both routes, whose chains have no file validator. One request is
\* served: the complete form of a client on a route with, in each slot, a PDF, no
\* file, an executable or a file above the size limit, and with at most one more
\* change: the body sent as JSON, the route's first required field absent, or
\* its last required field empty.
InitLenient ==
    /\ rev = Lenient
    /\ pc = [c \in Conns |-> "idle"]
    /\ req = [c \in Conns |-> NoReq]
    /\ res = [c \in Conns |-> NoRes]
    /\ urls = [c \in Conns |-> << >>]
    /\ blob = [c \in Conns |-> NoBlob]
    /\ bucket = {}
    /\ db = [p \in Paths |-> << >>]
    /\ clock = 1
    /\ uuids = 0
    /\ served = 0
    /\ addLog = << >>
    /\ putLog = << >>

LenientSlotMods(route, i) ==
    {NoMod} \cup {[k |-> "slot", f |-> fileSlots(route)[i], v |-> v] :
                    v \in {"none", "application/x-msdownload", "big"}}

LenientFormMods(route) ==
    {NoMod, AsJson,
     [k |-> "field", f |-> requiredFields(route)[1], v |-> "absent"],
     [k |-> "field", f |-> requiredFields(route)[Len(requiredFields(route))], v |-> "empty"]}

ReceiveLenient(c) ==
    /\ served = 0
    /\ c = Min(Conns)
    /\ \E route \in Routes(rev), client \in Clients :
        \E m1 \in LenientSlotMods(route, 1), m2 \in LenientSlotMods(route, 2),
           m3 \in LenientSlotMods(route, 3), m \in LenientFormMods(route) :
            req' = [req EXCEPT ![c] = formRequest(route, client, {m1, m2, m3, m}, 1)]
    /\ served' = 1
    /\ pc' = [pc EXCEPT ![c] = "upload"]
    /\ UNCHANGED <<rev, res, urls, blob, bucket, db, clock, uuids, addLog, putLog>>

NextLenient ==
    \E c \in Conns :
        \/ ReceiveLenient(c)
        \/ Multer(c)
        \/ ValidateForm(c)
        \/ UploadStart(c)
        \/ UploadFinish(c)
        \/ UploadError(c)
        \/ AddCall(c)
        \/ AddResolve(c)
        \/ AddReject(c)
        \/ Close(c)

SpecLenient == InitLenient /\ [][NextLenient]_vars

\* server.js serving submissions concurrently: every await of a handler (the
\* parse of the body, each upload, the add) lets the other connection run.
\* Each connection serves one submission and keeps its response. The submissions
\* are the complete research forms of the two clients, a complete internship
\* form, and an internship form that lacks supervisorName.
PairForms ==
    {[route |-> Penelitian, client |-> "a", mods |-> {NoMod}],
     [route |-> Penelitian, client |-> "b", mods |-> {NoMod}],
     [route |-> Magang, client |-> "b", mods |-> {NoMod}],
     [route |-> Magang, client |-> "a",
      mods |-> {[k |-> "field", f |-> "supervisorName", v |-> "absent"]}]}

\* A request arrives while another may be in progress; it takes the lowest free connection.
ReceiveAny(c) ==
    /\ ~Busy(c)
    /\ \A d \in Conns : d < c => Busy(d)
    /\ \E form \in PairForms :
        req' = [req EXCEPT ![c] = formRequest(form.route, form.client, form.mods, served + 1)]
    /\ served' = served + 1
    /\ pc' = [pc EXCEPT ![c] = "upload"]
    /\ res' = [res EXCEPT ![c] = NoRes]
    /\ urls' = [urls EXCEPT ![c] = << >>]
    /\ UNCHANGED <<rev, blob, bucket, db, clock, uuids, addLog, putLog>>

\* Node runs a request's synchronous code to completion: while a connection is
\* between the end of its body's parse and its next await (the validators, the
\* handler up to an upload or the add), no other connection takes a step.
Synchronous(c) == pc[c] \in {"validateForm", "validateFiles", "handler"}

Turn(c) == \A d \in Conns \ {c} : ~Synchronous(d)

NextPair ==
    \E c \in Conns :
        \/ Turn(c) /\ ReceiveAny(c)
        \/ Turn(c) /\ Multer(c)
        \/ Turn(c) /\ ValidateForm(c)
        \/ Turn(c) /\ ValidateFiles(c)
        \/ Turn(c) /\ UploadStart(c)
        \/ Turn(c) /\ UploadFinish(c)
        \/ Turn(c) /\ UploadError(c)
        \/ Turn(c) /\ AddCall(c)
        \/ Turn(c) /\ AddResolve(c)
        \/ Turn(c) /\ AddReject(c)

SpecPair == Init /\ [][NextPair]_vars

\* a step of the request on connection c, when it is c's turn
ConnStep(c) ==
    /\ Turn(c)
    /\ \/ Multer(c)
       \/ ValidateForm(c)
       \/ ValidateFiles(c)
       \/ UploadStart(c)
       \/ UploadFinish(c)
       \/ UploadError(c)
       \/ AddCall(c)
       \/ AddResolve(c)
       \/ AddReject(c)

\* The concurrent server where nothing pends for ever: the event loop runs the
\* code that is ready, every write stream emits finish or error and every add()
\* resolves or rejects.
SpecPairLive == SpecPair /\ \A c \in Conns : WF_vars(ConnStep(c))

\* The two pipelines side by side: connection 1 receives a research form and
\* connection 2 the internship form that corresponds to it, the same client's
\* form changed in the same ways at the same positions of the schemas (the i-th
\* required field, the i-th file slot).
TwinRoute(c) == IF c = 1 THEN Penelitian ELSE Magang

TwinMods ==
    {[k |-> "field", i |-> i, v |-> v] :
        i \in 1..Len(InternshipRequiredFields), v \in {"absent", "empty"}}
    \cup {[k |-> "slot", i |-> i, v |-> v] :
        i \in 1..3, v \in {"none", "big", "application/x-msdownload", "big executable"}}
    \cup {[k |-> k, i |-> 0, v |-> ""] : k \in {"json", "spoof", "none"}}
    \cup {[k |-> "mime", i |-> 0, v |-> v] : v \in {"image/jpeg", "image/png"}}

\* the change of a form of the route that is m at the route's own names
modOf(route, m) ==
    [k |-> m.k,
     f |-> CASE m.k = "field" -> requiredFields(route)[m.i]
             [] m.k = "slot" -> fileSlots(route)[m.i]
             [] OTHER -> "",
     v |-> m.v]

ReceiveTwin ==
    /\ served = 0
    /\ \A c \in Conns : ~Busy(c)
    /\ \E client \in Clients, m1 \in TwinMods, m2 \in TwinMods :
        req' = [c \in Conns |->
                    formRequest(TwinRoute(c), client,
                                {modOf(TwinRoute(c), m1), modOf(TwinRoute(c), m2)}, c)]
    /\ served' = 2
    /\ pc' = [c \in Conns |-> "upload"]
    /\ UNCHANGED <<rev, res, urls, blob, bucket, db, clock, uuids, addLog, putLog>>

NextTwin ==
    \/ ReceiveTwin
    \/ \E c \in Conns :
        \/ Turn(c) /\ Multer(c)
        \/ Turn(c) /\ ValidateForm(c)
        \/ Turn(c) /\ ValidateFiles(c)
        \/ Turn(c) /\ UploadStart(c)
        \/ Turn(c) /\ UploadFinish(c)
        \/ Turn(c) /\ UploadError(c)
        \/ Turn(c) /\ AddCall(c)
        \/ Turn(c) /\ AddResolve(c)
        \/ Turn(c) /\ AddReject(c)

SpecTwin == Init /\ [][NextTwin]_vars

----------------------------------------------------------------------------
(* Vocabulary of the properties *)

Done(c) == pc[c] = "done"

AddsBy(no) == {i \in 1..Len(addLog) : addLog[i].no = no}
WrittenBy(no) == {i \in AddsBy(no) : addLog[i].state = "written"}
PutsBy(no) == {i \in 1..Len(putLog) : putLog[i].no = no}

\* required fields of the route that the body lacks: absent or the empty string
MissingRequired(r) ==
    {f \in Range(requiredFields(r.route)) : r.body[f] = Undefined \/ r.body[f] = Str("")}

\* a file of the request is above the size limit
Oversized(r) == \E i \in 1..3 : r.files[i].size > fileSize

\* slots of the request without a file, and slots whose file has a type that is not allowed
SlotsWithoutFile(r) == {i \in 1..3 : ~r.multipart \/ r.files[i] = NoFile}
SlotsOfBadType(r) ==
    {i \in 1..3 : r.multipart /\ r.files[i] # NoFile
                    /\ r.files[i].mimetype \notin {"application/pdf", "image/jpeg", "image/png"}}

FormValid(r) ==
    MissingRequired(r) = {} /\ SlotsWithoutFile(r) = {} /\ SlotsOfBadType(r) = {}

\* the documents of all collections number the add() calls that resolved
DocsCounted ==
    \A p \in Paths :
        Len(db[p]) = Cardinality({i \in 1..Len(addLog) :
                                    addLog[i].path = p /\ addLog[i].state = "written"})

----------------------------------------------------------------------------
(* C1 *)

----------------------------------------------------------------------------
(* C2 *)

\* C2 as stated, for the requests the upload middleware accepts: a finished
\* request has written a document exactly if its required fields are all
\* non-empty and its three slots hold files of allowed types.
C2_AsStated ==
    \A c \in Conns :
        Done(c) /\ ~Oversized(req[c]) =>
            (WrittenBy(req[c].no) # {} <=> FormValid(req[c]))

\* the document of the i-th resolved add is whole: it has every field of its
\* route's schema, each non-empty, the three URL fields and the timestamp
WholeDocument(path, d) ==
    \E route \in Routes(rev) :
        /\ collectionPath(route) = path
        /\ DOMAIN d = Range(recordFields(route)) \cup Range(urlFields(route)) \cup {"timestamp"}
        /\ \A f \in Range(recordFields(route)) : d[f].t = "string" /\ d[f].v # ""
        /\ d["timestamp"].t = "timestamp"

\* C2, amended: a finished request has written a document only if its required
\* fields are all non-empty and its three slots hold files of allowed types; a
\* request of that kind that the upload middleware accepted has written a
\* document unless one of its uploads or its add failed; and every document of
\* every collection is whole.
C2_WrittenOnlyIfValid ==
    /\ \A c \in Conns :
        Done(c) =>
            /\ WrittenBy(req[c].no) # {} => FormValid(req[c])
            /\ FormValid(req[c]) /\ ~Oversized(req[c]) =>
                \/ WrittenBy(req[c].no) # {}
                \/ \E i \in PutsBy(req[c].no) : putLog[i].state = "failed"
                \/ \E i \in AddsBy(req[c].no) : addLog[i].state = "rejected"
    /\ \A p \in Paths : \A i \in 1..Len(db[p]) : WholeDocument(p, db[p][i])
    /\ DocsCounted

\* a valid request has written its document
C2_Witness ==
    \E c \in Conns :
        Done(c) /\ FormValid(req[c]) /\ WrittenBy(req[c].no) # {}
            /\ Len(db[collectionPath(req[c].route)]) > 0

----------------------------------------------------------------------------
(* C3 *)

\* C3: a request answered 200 "Data berhasil disimpan" has by then added exactly
\* one document; no request adds more than one; and the collections hold one
\* document per add that resolved, no more.
C3_OneRecordPerSuccess ==
    /\ \A c \in Conns :
        res[c] = Saved => Cardinality(WrittenBy(req[c].no)) = 1
    /\ \A c \in Conns :
        Done(c) /\ res[c] # Saved => WrittenBy(req[c].no) = {}
    /\ \A no \in 1..served : Cardinality(WrittenBy(no)) <= 1
    /\ DocsCounted

\* a request answered 200 with its one document in the collection
C3_Witness ==
    \E c \in Conns :
        /\ res[c] = Saved
        /\ Cardinality(WrittenBy(req[c].no)) = 1
        /\ Len(db[collectionPath(req[c].route)]) >= 1

----------------------------------------------------------------------------
(* C4 *)

\* C4 as stated, for the requests the upload middleware accepts: every finished
\* request with its required fields filled and a slot without file or with a file
\* of a type that is not allowed was answered 400 and called no add().
C4_AsStated ==
    \A c \in Conns :
        Done(c) /\ ~Oversized(req[c]) /\ MissingRequired(req[c]) = {}
            /\ (SlotsWithoutFile(req[c]) # {} \/ SlotsOfBadType(req[c]) # {}) =>
                /\ res[c].status = 400
                /\ AddsBy(req[c].no) = {}

----------------------------------------------------------------------------
(* C5 *)

MustBe(route, i) == "File " \o fileSlots(route)[i] \o " must be a PDF, JPEG, or PNG"
IsRequired(route, i) == "File " \o fileSlots(route)[i] \o " is required"

\* C5 as stated, for the requests that pass the upload middleware and the field
\* validator: a finished request with a file of a type that is not allowed in a
\* slot was answered 400 naming such a slot, and added nothing and uploaded nothing.
C5_AsStated ==
    \A c \in Conns :
        Done(c) /\ ~Oversized(req[c]) /\ MissingRequired(req[c]) = {}
            /\ SlotsOfBadType(req[c]) # {} =>
                /\ \E i \in SlotsOfBadType(req[c]) :
                        res[c] = Json(400, MustBe(req[c].route, i))
                /\ AddsBy(req[c].no) = {}
                /\ PutsBy(req[c].no) = {}

\* C5, amended: a finished request with a file of a type that is not allowed in
\* a slot added no document and opened no upload for any slot; and if it passed
\* the upload middleware and the field validator it was answered 400 naming the
\* first slot, in declared order, that is empty or holds such a file: the slot
\* itself when every slot before it holds a file of an allowed type.
C5_BadTypeRejected ==
    \A c \in Conns :
        Done(c) /\ SlotsOfBadType(req[c]) # {} =>
            LET r == req[c]
                first == Min(SlotsWithoutFile(r) \cup SlotsOfBadType(r))
            IN  /\ AddsBy(r.no) = {}
                /\ PutsBy(r.no) = {}
                /\ ~Oversized(r) /\ MissingRequired(r) = {} =>
                    res[c] = Json(400, IF first \in SlotsOfBadType(r)
                                       THEN MustBe(r.route, first)
                                       ELSE IsRequired(r.route, first))

\* a research form with every field, valid files in the first and third slot and
\* an executable in the proposal slot, answered 400 naming proposalFile
C5_Witness ==
    \E c \in Conns :
        /\ Done(c)
        /\ req[c].route = Penelitian
        /\ MissingRequired(req[c]) = {}
        /\ SlotsOfBadType(req[c]) = {2}
        /\ SlotsWithoutFile(req[c]) = {}
        /\ res[c] = Json(400, "File proposalFile must be a PDF, JPEG, or PNG")

----------------------------------------------------------------------------
(* C6 *)

Stored(name) == \E b \in bucket : b.name = name

\* C6: when the write of the upload of slot k of a request has failed, the
\* request is answered 500 "Terjadi kesalahan saat menyimpan data", has called no
\* add(), has opened no upload for a slot after k, and the blobs of its slots
\* before k are in the bucket; and every blob ever stored is still in the bucket.
C6_UploadFailure ==
    /\ \A i \in 1..Len(putLog) :
        putLog[i].state = "failed" =>
            /\ \A c \in Conns : req[c] # NoReq /\ req[c].no = putLog[i].no => res[c] = Failed
            /\ AddsBy(putLog[i].no) = {}
            /\ \A j \in PutsBy(putLog[i].no) :
                /\ putLog[j].slot <= putLog[i].slot
                /\ putLog[j].slot < putLog[i].slot =>
                        putLog[j].state = "stored" /\ Stored(putLog[j].name)
            /\ \A k \in 1..(putLog[i].slot - 1) :
                \E j \in PutsBy(putLog[i].no) : putLog[j].slot = k
    /\ \A j \in 1..Len(putLog) : putLog[j].state = "stored" => Stored(putLog[j].name)

\* the upload of the third slot failed, with the first two blobs in the bucket
C6_Witness ==
    \E i \in 1..Len(putLog), c \in Conns :
        /\ putLog[i].state = "failed" /\ putLog[i].slot = 3
        /\ Done(c) /\ req[c].no = putLog[i].no /\ res[c] = Failed
        /\ Cardinality(bucket) >= 2

----------------------------------------------------------------------------
(* C7 *)

\* C7: when the add() of a request has rejected, the request is answered 500
\* "Terjadi kesalahan saat menyimpan data", it has called add() once, no document
\* of any collection is its own, and the blob of each of its uploads is in the bucket.
C7_AddFailure ==
    /\ \A i \in 1..Len(addLog) :
        addLog[i].state = "rejected" =>
            /\ \A c \in Conns : req[c] # NoReq /\ req[c].no = addLog[i].no => res[c] = Failed
            /\ AddsBy(addLog[i].no) = {i}
            /\ \A j \in PutsBy(addLog[i].no) :
                putLog[j].state = "stored" /\ Stored(putLog[j].name)
            /\ {putLog[j].slot : j \in PutsBy(addLog[i].no)} = 1..3
    /\ DocsCounted

\* an add() rejected after three uploads; the three blobs are in the bucket
C7_Witness ==
    \E i \in 1..Len(addLog), c \in Conns :
        /\ addLog[i].state = "rejected"
        /\ Done(c) /\ req[c].no = addLog[i].no /\ res[c] = Failed
        /\ Cardinality({b \in bucket : \E j \in PutsBy(addLog[i].no) : putLog[j].name = b.name}) = 3
        /\ Len(db[addLog[i].path]) = Cardinality(WrittenBy(addLog[i].no))

----------------------------------------------------------------------------
(* C8 *)

\* the fourteen fields of scenario A, and the fifteenth that server.js requires
ScenarioAFields ==
    {"name", "researcherName", "address", "inputValue", "institution", "occupation",
     "judulPenelitian", "researchField", "tujuanPenelitian", "supervisorName",
     "teamMembers", "statusPenelitian", "researchPeriod", "researchLocation"}

\* a finished research request with three PDFs within the size limit, none of
\* whose uploads failed and whose add() did not reject
ThreePdfsAndNoFailure(c) ==
    /\ Done(c)
    /\ req[c].route = Penelitian
    /\ req[c].multipart
    /\ \A i \in 1..3 :
        req[c].files[i].mimetype = "application/pdf" /\ req[c].files[i].size <= fileSize
    /\ \A j \in PutsBy(req[c].no) : putLog[j].state # "failed"
    /\ \A j \in AddsBy(req[c].no) : addLog[j].state # "rejected"

\* answered 200, with exactly one document, in the research collection, whose
\* three URL fields are URLs
SavedWithThreeUrls(c) ==
    /\ res[c] = Saved
    /\ \E i \in 1..Len(addLog) :
        /\ WrittenBy(req[c].no) = {i}
        /\ addLog[i].path = "pelayanan/penelitian/data"
        /\ addLog[i].index \in 1..Len(db[addLog[i].path])
        /\ \A u \in {"suratPengantarUrl", "proposalUrl", "ktpUrl"} :
            db[addLog[i].path][addLog[i].index][u].t = "string"

\* C8 as stated: a research request that carries the fourteen fields of
\* scenario A and three valid PDFs, with storage and database succeeding, is
\* answered 200 and has one document with three URLs in the research collection.
C8_AsStated ==
    \A c \in Conns :
        ThreePdfsAndNoFailure(c)
            /\ (\A f \in ScenarioAFields : req[c].body[f] \notin {Undefined, Str("")})
            => SavedWithThreeUrls(c)

\* C8, amended: a research request that carries the fourteen fields of scenario A
\* and letterNumber, fifteen in all, and three valid PDFs, with storage and
\* database succeeding, is answered 200 and has one document with three URLs in
\* the research collection.
C8_ScenarioA ==
    \A c \in Conns :
        ThreePdfsAndNoFailure(c)
            /\ (\A f \in ScenarioAFields \cup {"letterNumber"} :
                    req[c].body[f] \notin {Undefined, Str("")})
            => SavedWithThreeUrls(c)

\* the fifteen fields and three PDFs, answered 200, one document in the collection
C8_Witness ==
    \E c \in Conns :
        /\ ThreePdfsAndNoFailure(c)
        /\ \A f \in ScenarioAFields \cup {"letterNumber"} :
                req[c].body[f] \notin {Undefined, Str("")}
        /\ SavedWithThreeUrls(c)
        /\ Len(db["pelayanan/penelitian/data"]) >= 1

----------------------------------------------------------------------------
(* C9 *)

\* the URL the request's own upload of slot i resolved to, null without upload
OwnUrl(no, i) ==
    LET js == {j \in PutsBy(no) : putLog[j].slot = i /\ putLog[j].state = "stored"}
    IN  IF js = {} THEN Null ELSE putLog[CHOOSE j \in js : TRUE].url

\* C9: the document of a request answered 200 holds each form field with the
\* value the request's body has for it, and in the URL field of each slot the URL
\* of the request's own upload of that slot, which is the URL of no other slot's
\* blob (null without a file in the slot).
C9_RecordMatchesRequest ==
    \A c \in Conns :
        res[c] = Saved =>
            \A i \in WrittenBy(req[c].no) :
                LET d == db[addLog[i].path][addLog[i].index]
                    r == req[c]
                IN  /\ \A f \in Range(requiredFields(r.route)) : d[f] = r.body[f]
                    /\ \A k \in 1..3 :
                        /\ d[urlFields(r.route)[k]] = OwnUrl(r.no, k)
                        /\ (r.files[k] = NoFile) = (d[urlFields(r.route)[k]] = Null)
                        /\ \A j \in 1..Len(putLog) :
                            putLog[j].url = d[urlFields(r.route)[k]] =>
                                putLog[j].no = r.no /\ putLog[j].slot = k

\* a request answered 200 whose document holds its three distinct URLs
C9_Witness ==
    \E c \in Conns :
        /\ res[c] = Saved
        /\ \E i \in WrittenBy(req[c].no) :
            LET d == db[addLog[i].path][addLog[i].index]
            IN  /\ d["proposalUrl"] = OwnUrl(req[c].no, 2)
                /\ d["proposalUrl"] # d["ktpUrl"]
                /\ d["ktpUrl"] # Null
                /\ d["address"] = req[c].body["address"]

----------------------------------------------------------------------------
(* C10 *)

\* C10 as stated: every document added has a timestamp field holding the
\* server's time of the write, and neither that field nor a URL field holds the
\* value the request's body gave under the same key.
C10_AsStated ==
    /\ \A i \in 1..Len(addLog) :
        addLog[i].state = "written" =>
            LET d == db[addLog[i].path][addLog[i].index]
            IN  /\ "timestamp" \in DOMAIN d
                /\ d["timestamp"] = Timestamp(addLog[i].at)
    /\ \A c \in Conns :
        res[c] = Saved =>
            \A i \in WrittenBy(req[c].no) :
                LET d == db[addLog[i].path][addLog[i].index]
                IN  \A key \in (Range(urlFields(req[c].route)) \cup {"timestamp"})
                                    \cap DOMAIN d :
                        req[c].body[key] # Undefined => d[key] # req[c].body[key]

----------------------------------------------------------------------------
(* C11 *)

\* two connections carry the same form: same route, same body, same files
SameForm(c, d) ==
    /\ req[c] # NoReq /\ req[d] # NoReq
    /\ req[c].route = req[d].route
    /\ req[c].body = req[d].body
    /\ req[c].files = req[d].files

\* none of the request's uploads failed and its add() did not reject
NoFailureOf(no) ==
    /\ \A j \in PutsBy(no) : putLog[j].state # "failed"
    /\ \A j \in AddsBy(no) : addLog[j].state # "rejected"

\* the document the request of connection c wrote (c was answered 200)
RecordOf(c) ==
    LET i == CHOOSE x \in WrittenBy(req[c].no) : TRUE
    IN  db[addLog[i].path][addLog[i].index]

\* C11: of two submissions of the same valid form, served one after the other
\* or interleaved, neither is refused because of the other (each is answered 200
\* unless one of its own uploads or its own add failed); once both are answered
\* 200 the collection holds two records at different positions, each still
\* exactly the document its own request wrote, with its own URLs; and no upload
\* of one has the blob name of an upload of the other, so the bucket holds one
\* blob per upload that was stored.
C11_TwiceTwoRecords ==
    \A c, d \in Conns :
        c # d /\ SameForm(c, d) /\ FormValid(req[c]) =>
            /\ Done(d) /\ NoFailureOf(req[d].no) => res[d] = Saved
            /\ \A i \in PutsBy(req[c].no), j \in PutsBy(req[d].no) :
                    putLog[i].name # putLog[j].name
            /\ Cardinality(bucket) =
                    Cardinality({j \in 1..Len(putLog) : putLog[j].state = "stored"})
            /\ res[c] = Saved /\ res[d] = Saved =>
                LET i == CHOOSE x \in WrittenBy(req[c].no) : TRUE
                    j == CHOOSE x \in WrittenBy(req[d].no) : TRUE
                    path == collectionPath(req[c].route)
                IN  /\ addLog[i].index # addLog[j].index
                    /\ Len(db[path]) = 2
                    /\ RecordOf(c) = document(rev, req[c], urls[c], addLog[i].at)
                    /\ RecordOf(d) = document(rev, req[d], urls[d], addLog[j].at)
                    /\ \A k \in 1..3 :
                        /\ urls[c][k] = OwnUrl(req[c].no, k)
                        /\ urls[c][k] # urls[d][k]

\* the same research form submitted on both connections, interleaved (the second
\* arrived before the first was answered), both answered 200: two records, six blobs
C11_Witness ==
    \E c, d \in Conns :
        /\ c # d /\ SameForm(c, d)
        /\ res[c] = Saved /\ res[d] = Saved
        /\ Len(db[collectionPath(req[c].route)]) = 2
        /\ Cardinality(bucket) = 6
        /\ \E i \in PutsBy(req[c].no), j \in PutsBy(req[d].no) :
            i > j /\ req[c].no < req[d].no


----------------------------------------------------------------------------
(* C12 *)

\* the phase of the request on connection c: the middleware before the handler
\* validate, the handler uploads until it has its three URL constants, then
\* persists, and the request is responding once its response is sent
Phase(c) ==
    CASE pc[c] \in {"upload", "validateForm", "validateFiles"} -> "Validating"
      [] pc[c] = "uploading" -> "Uploading"
      [] pc[c] = "handler" /\ Len(urls[c]) < 3 -> "Uploading"
      [] pc[c] = "handler" /\ Len(urls[c]) = 3 -> "Persisting"
      [] pc[c] = "adding" -> "Persisting"
      [] pc[c] = "done" -> "Responding"
      [] OTHER -> "Idle"

PhaseOrder ==
    {<<"Idle", "Validating">>, <<"Validating", "Uploading">>,
     <<"Uploading", "Persisting">>, <<"Persisting", "Responding">>,
     <<"Validating", "Responding">>, <<"Uploading", "Responding">>,
     <<"Responding", "Idle">>}

\* the uploads of a request are opened in slot order, one at a time
UploadsInOrder(no) ==
    \A i, j \in PutsBy(no) :
        i < j => putLog[i].slot < putLog[j].slot /\ putLog[i].state = "stored"

\* C12: a request changes phase only along Validating, Uploading, Persisting,
\* Responding, or from a phase straight to Responding; its uploads are opened in
\* slot order, each only after the one before it was stored, so at most one is in
\* flight; its add() is called only after each of its uploads was stored; it is
\* answered 200 only after its add() resolved; and a request with a failed
\* upload or a rejected add() is responding, with nothing opened after the failure.
C12_PhasesInOrder ==
    /\ [][\A c \in Conns :
            Phase(c)' # Phase(c) => <<Phase(c), Phase(c)'>> \in PhaseOrder]_vars
    /\ [](\A c \in Conns :
            req[c] # NoReq =>
                LET no == req[c].no
                IN  /\ UploadsInOrder(no)
                    /\ Cardinality({i \in PutsBy(no) : putLog[i].state = "open"}) <= 1
                    /\ (\E i \in PutsBy(no) : putLog[i].state = "open") <=> pc[c] = "uploading"
                    /\ AddsBy(no) # {} =>
                        /\ \A i \in PutsBy(no) : putLog[i].state = "stored"
                        /\ {putLog[i].slot : i \in PutsBy(no)} =
                                {k \in 1..3 : hasFile(req[c], k)}
                        /\ Len(urls[c]) = 3
                    /\ res[c] = Saved => WrittenBy(no) # {}
                    /\ (\E i \in AddsBy(no) : addLog[i].state = "pending") <=> pc[c] = "adding"
                    /\ ~NoFailureOf(no) =>
                        /\ Done(c) /\ res[c] = Failed
                        /\ WrittenBy(no) = {}
                        /\ \A i \in PutsBy(no) :
                            putLog[i].state = "failed" =>
                                AddsBy(no) = {} /\ \A j \in PutsBy(no) : j <= i)

\* a request answered 200 after three uploads and its add
C12_Witness ==
    \E c \in Conns :
        /\ Phase(c) = "Responding"
        /\ res[c] = Saved
        /\ Cardinality(PutsBy(req[c].no)) = 3
        /\ UploadsInOrder(req[c].no)
        /\ Cardinality(WrittenBy(req[c].no)) = 1


----------------------------------------------------------------------------
(* C13 *)

\* the response a finished request is due by its own body, its own files and the
\* outcomes of its own uploads and its own add()
OwnResponse(c) ==
    LET r == req[c]
        fields == IF r.route = Magang THEN validateInternshipForm(r)
                  ELSE validateResearchForm(r)
        files == IF r.route = Magang THEN validateInternshipFiles(r)
                 ELSE validateResearchFiles(r)
    IN  IF upload(r).outcome # "next" THEN upload(r).res
        ELSE IF fields.outcome # "next" THEN fields.res
        ELSE IF files.outcome # "next" THEN files.res
        ELSE IF NoFailureOf(r.no) THEN Saved
        ELSE Failed

\* C13: with two submissions served concurrently, under every interleaving at
\* the awaits, each document added holds the field values of the body of the
\* request that added it and, in each URL field, the URL of that request's own
\* upload of that slot and of no other upload; and each finished request has
\* the response due by its own body, files, uploads and add().
C13_NoSharedState ==
    /\ \A c \in Conns :
        req[c] # NoReq =>
            \A i \in WrittenBy(req[c].no) :
                LET d == db[addLog[i].path][addLog[i].index]
                    r == req[c]
                IN  /\ addLog[i].path = collectionPath(r.route)
                    /\ \A f \in Range(recordFields(r.route)) : d[f] = r.body[f]
                    /\ \A k \in 1..3 :
                        /\ d[urlFields(r.route)[k]] = OwnUrl(r.no, k)
                        /\ \A j \in 1..Len(putLog) :
                            putLog[j].url = d[urlFields(r.route)[k]] =>
                                putLog[j].no = r.no /\ putLog[j].slot = k
    /\ \A c \in Conns : Done(c) => res[c] = OwnResponse(c)
    /\ \A c \in Conns : ~Done(c) => res[c] = NoRes

\* research forms of the two clients, interleaved (each opened an upload before
\* the other's last), both answered 200, and a document holding client b's values
C13_Witness ==
    \E c, d \in Conns :
        /\ c # d
        /\ res[c] = Saved /\ res[d] = Saved
        /\ req[c].route = req[d].route
        /\ req[c].body # req[d].body
        /\ \E i, j \in PutsBy(req[c].no), k, l \in PutsBy(req[d].no) : i < k /\ k < j /\ j < l
        /\ \E i \in 1..2 :
            db["pelayanan/penelitian/data"][i]["address"] = Str("b:address")


----------------------------------------------------------------------------
(* C14 *)

\* an upload of the request failed / the add() of the request rejected
UploadFailed(no) == \E i \in PutsBy(no) : putLog[i].state = "failed"
AddRejected(no) == \E i \in AddsBy(no) : addLog[i].state = "rejected"

\* C14: of two runs of the same request, one whose upload failed (at whichever
\* slot) and one whose add() rejected or whose upload failed at another slot, the
\* responses are equal: status 500, message "Terjadi kesalahan saat menyimpan
\* data", and no other member.
C14_SameFailureResponse ==
    \A c, d \in Conns :
        /\ SameForm(c, d)
        /\ UploadFailed(req[c].no)
        /\ UploadFailed(req[d].no) \/ AddRejected(req[d].no)
        =>  /\ res[c] = res[d]
            /\ res[c].status = 500
            /\ res[c].message = "Terjadi kesalahan saat menyimpan data"
            /\ DOMAIN res[c] = {"status", "message"}

\* the same form on both connections: the second upload of one failed after its
\* first was stored, the add() of the other rejected, and both are answered
C14_Witness ==
    \E c, d \in Conns :
        /\ SameForm(c, d)
        /\ \E i \in PutsBy(req[c].no) : putLog[i].state = "failed" /\ putLog[i].slot = 2
        /\ AddRejected(req[d].no)
        /\ Done(c) /\ Done(d)
        /\ res[c] = res[d]


----------------------------------------------------------------------------
(* C15 *)

ResearchData == "pelayanan/penelitian/data"
InternshipData == "pelayanan/magang/magang"

\* the step is one of connection c
StepOf(c) == pc'[c] # pc[c] \/ urls'[c] # urls[c]

\* the collection of the other service type
OtherData(route) == IF route = Penelitian THEN InternshipData ELSE ResearchData

\* C15: a step of a request to /api/penelitian leaves pelayanan/magang/magang as
\* it is and a step of a request to /api/magang leaves pelayanan/penelitian/data
\* as it is; every add() of a request to /api/penelitian names
\* pelayanan/penelitian/data and every add() of a request to /api/magang names
\* pelayanan/magang/magang; and each collection holds only documents with the
\* fields of its own service type.
C15_RouteDecidesCollection ==
    /\ [][\A c \in Conns :
            StepOf(c) =>
                IF req[c] = NoReq THEN db' = db
                ELSE db'[OtherData(req[c].route)] = db[OtherData(req[c].route)]]_vars
    /\ [](\A c \in Conns :
            req[c] # NoReq =>
                \A i \in AddsBy(req[c].no) :
                    /\ req[c].route = Penelitian => addLog[i].path = ResearchData
                    /\ req[c].route = Magang => addLog[i].path = InternshipData)
    /\ [](/\ \A i \in 1..Len(db[ResearchData]) :
                "researcherName" \in DOMAIN db[ResearchData][i]
          /\ \A i \in 1..Len(db[InternshipData]) :
                "applicantsName" \in DOMAIN db[InternshipData][i])

\* a research request and an internship request both answered 200, one document
\* in each collection
C15_Witness ==
    \E c, d \in Conns :
        /\ req[c].route = Penelitian /\ res[c] = Saved
        /\ req[d].route = Magang /\ res[d] = Saved
        /\ Len(db[ResearchData]) = 1
        /\ Len(db[InternshipData]) = 1
        /\ "applicantsName" \in DOMAIN db[InternshipData][1]


----------------------------------------------------------------------------
(* C16 *)

\* the missing required field that comes first in the schema's declared order
FirstMissing(r) ==
    LET fields == requiredFields(r.route)
    IN  fields[Min({i \in 1..Len(fields) : fields[i] \in MissingRequired(r)})]

\* C16: when the field validator runs on a request that lacks required fields,
\* its step ends the request with 400 "<field> is required" for the first lacking
\* field in declared order; the request never reaches the file validator or the
\* handler, and opens no upload and calls no add(); and a response, once sent, is
\* not followed by another.
C16_FirstMissingOnly ==
    /\ [][\A c \in Conns :
            /\ pc[c] = "validateForm" /\ pc'[c] # "validateForm"
               /\ MissingRequired(req[c]) # {} =>
                    /\ pc'[c] = "done"
                    /\ res'[c] = Json(400, FirstMissing(req[c]) \o " is required")
            /\ res[c] # NoRes => res'[c] \in {res[c], NoRes}]_vars
    /\ [](\A c \in Conns :
            req[c] # NoReq /\ MissingRequired(req[c]) # {} =>
                /\ pc[c] \in {"upload", "validateForm", "done"}
                /\ PutsBy(req[c].no) = {}
                /\ AddsBy(req[c].no) = {}
                /\ Done(c) /\ ~Oversized(req[c]) =>
                    res[c] = Json(400, FirstMissing(req[c]) \o " is required"))

\* a research form without address and without supervisorName, answered 400
\* "address is required"
C16_Witness ==
    \E c \in Conns :
        /\ Done(c)
        /\ req[c].route = Penelitian
        /\ MissingRequired(req[c]) = {"address", "supervisorName"}
        /\ res[c] = Json(400, "address is required")


----------------------------------------------------------------------------
(* C17 *)

\* C17: in every step of the server, each collection keeps every document it
\* has, at its position and with its contents, and so never gets shorter; a step
\* adds at most one document, at the end of one collection.
C17_AppendOnly ==
    [][\A p \in Paths :
            /\ Len(db'[p]) >= Len(db[p])
            /\ Len(db'[p]) <= Len(db[p]) + 1
            /\ \A i \in 1..Len(db[p]) : db'[p][i] = db[p][i]]_vars

\* a document written by one request is in its collection after the add() of a
\* later request to the same collection rejected and after a request was refused
C17_Witness ==
    \E i, j \in 1..Len(addLog) :
        /\ i < j
        /\ addLog[i].state = "written"
        /\ addLog[j].state = "rejected"
        /\ addLog[i].path = addLog[j].path
        /\ Len(db[addLog[i].path]) = 1
        /\ \E c \in Conns : req[c].no = addLog[i].no /\ RecordOf(c) = db[addLog[i].path][1]


----------------------------------------------------------------------------
(* C18 *)

\* C18: a request that carries a file above the 10 MB limit is never past the
\* upload middleware: it awaits the parse of its body or is answered, by the
\* error handler and not by a validator or the handler; it opens no upload and
\* calls no add(), and while it is the only request the bucket and the
\* collections stay as they were.
C18_OversizeRejectedFirst ==
    \A c \in Conns :
        req[c] # NoReq /\ (\E i \in 1..3 : req[c].files[i].size > 10 * 1024 * 1024) =>
            /\ pc[c] \in {"upload", "done"}
            /\ Done(c) => res[c] = errorHandler
            /\ PutsBy(req[c].no) = {}
            /\ AddsBy(req[c].no) = {}
            /\ served = 1 => bucket = {} /\ \A p \in Paths : db[p] = << >>

\* a request with an oversized KTP file and no address, answered by the error
\* handler and not by the field validator
C18_Witness ==
    \E c \in Conns :
        /\ Done(c)
        /\ req[c].files[3].size > 10 * 1024 * 1024
        /\ req[c].files[1].size <= 10 * 1024 * 1024
        /\ "address" \in MissingRequired(req[c])
        /\ res[c] = errorHandler
        /\ bucket = {}


----------------------------------------------------------------------------
(* C19 *)

\* C19: a request opens at most one upload for each of its file slots, so at
\* most three in all, and calls add() at most once, whichever of them fail; a
\* failed upload and a rejected add() are the request's last operation.
C19_NoRetry ==
    \A no \in 1..served :
        /\ \A k \in 1..3 : Cardinality({i \in PutsBy(no) : putLog[i].slot = k}) <= 1
        /\ Cardinality(PutsBy(no)) <= 3
        /\ Cardinality(AddsBy(no)) <= 1
        /\ \A i \in PutsBy(no) :
            putLog[i].state = "failed" =>
                AddsBy(no) = {} /\ \A j \in PutsBy(no) : j <= i
        /\ uuids = Len(putLog)

\* the first upload of a request failed; the request is answered with that one
\* upload opened and no add() called
C19_Witness ==
    \E c \in Conns :
        /\ Done(c) /\ res[c] = Failed
        /\ \E i \in 1..Len(putLog) :
            /\ PutsBy(req[c].no) = {i}
            /\ putLog[i].state = "failed"
            /\ putLog[i].slot = 1
        /\ AddsBy(req[c].no) = {}


----------------------------------------------------------------------------
(* C20 *)

\* C20: the name of every upload is an identifier, an underscore and the
\* original filename of the uploaded file, the identifier being one that no other
\* upload has; so the names of any two uploads differ, in one request or in two
\* and with equal filenames too; the bucket holds one blob for each upload that
\* was stored; and a step that stores a blob adds it and keeps every blob the
\* bucket had.
C20_FreshBlobNames ==
    /\ [](\A i \in 1..Len(putLog) :
            /\ \A c \in Conns :
                req[c] # NoReq /\ req[c].no = putLog[i].no =>
                    putLog[i].name =
                        ToString(i) \o "_" \o req[c].files[putLog[i].slot].originalname
            /\ \A j \in 1..Len(putLog) : i # j => putLog[i].name # putLog[j].name)
    /\ [](Cardinality({b.name : b \in bucket}) =
            Cardinality({i \in 1..Len(putLog) : putLog[i].state = "stored"}))
    /\ [][/\ bucket \subseteq bucket'
          /\ bucket' # bucket =>
                \E b \in bucket' : /\ bucket' = bucket \cup {b}
                                   /\ \A x \in bucket : x.name # b.name]_vars

\* two requests whose files all have the same original filename, their six
\* uploads stored under six names
C20_Witness ==
    \E c, d \in Conns :
        /\ c # d /\ req[c] # NoReq /\ req[d] # NoReq
        /\ \A k \in 1..3 : req[c].files[k].originalname = req[d].files[1].originalname
        /\ Cardinality({i \in 1..Len(putLog) : putLog[i].state = "stored"}) = 6
        /\ Cardinality({b.name : b \in bucket}) = 6


----------------------------------------------------------------------------
(* C21 *)

\* the request lacks a required field and has a slot without file or with a file
\* of a type that is not allowed
FieldAndFileFaults(r) ==
    /\ r # NoReq
    /\ MissingRequired(r) # {}
    /\ SlotsWithoutFile(r) # {} \/ SlotsOfBadType(r) # {}

\* a response of the file validator
FileResponse(r, x) ==
    \E i \in 1..3 : x = Json(400, IsRequired(r.route, i)) \/ x = Json(400, MustBe(r.route, i))

----------------------------------------------------------------------------
(* C22 *)

\* the request is multipart and passes the upload middleware and the field validator
ReachesFileValidator(r) ==
    r # NoReq /\ r.multipart /\ ~Oversized(r) /\ MissingRequired(r) = {}

\* the request is past the file validator: in the handler or answered by it
PastFileValidator(c) ==
    pc[c] \in {"handler", "uploading", "adding"} \/ res[c] \in {Saved, Failed}

\* C22: for a multipart request that reaches the file validator: with a file of
\* a type that is not allowed in slot i and no file in a later slot j, the
\* response is 400 "File <slot i> must be a PDF, JPEG, or PNG"; with no file in
\* slot i and a file of such a type in a later slot j, it is 400 "File <slot i>
\* is required"; in general it names the first slot, in declared order, that
\* fails, by the check it fails; the request gets past the validator only if
\* every slot holds a file of an allowed type; and no response is there before
\* the request is finished.
C22_FirstSlotFirstCheck ==
    \A c \in Conns :
        ReachesFileValidator(req[c]) =>
            LET r == req[c]
                without == SlotsWithoutFile(r)
                wrong == SlotsOfBadType(r)
            IN  /\ \A i, j \in 1..3 :
                    Done(c) /\ i < j /\ (\A k \in 1..(i - 1) : k \notin without \cup wrong) =>
                        /\ i \in wrong /\ j \in without =>
                            res[c] = Json(400, "File " \o fileSlots(r.route)[i]
                                                \o " must be a PDF, JPEG, or PNG")
                        /\ i \in without /\ j \in wrong =>
                            res[c] = Json(400, "File " \o fileSlots(r.route)[i] \o " is required")
                /\ Done(c) /\ without \cup wrong # {} =>
                    LET i == Min(without \cup wrong)
                    IN  res[c] = Json(400, "File " \o fileSlots(r.route)[i] \o
                                (IF i \in without THEN " is required"
                                 ELSE " must be a PDF, JPEG, or PNG"))
                /\ PastFileValidator(c) => without = {} /\ wrong = {}
                /\ ~Done(c) => res[c] = NoRes

\* a research form with an executable in the first slot and no file in the
\* third, answered 400 for the type of the first
C22_Witness ==
    \E c \in Conns :
        /\ Done(c)
        /\ ReachesFileValidator(req[c])
        /\ req[c].route = Penelitian
        /\ SlotsOfBadType(req[c]) = {1}
        /\ SlotsWithoutFile(req[c]) = {3}
        /\ res[c] = Json(400, "File suratPengantarFile must be a PDF, JPEG, or PNG")


----------------------------------------------------------------------------
(* C23 *)

\* C23 as stated: every finished request that passed the upload middleware and
\* the field validator, multipart or not, was either answered 400 by the file
\* validator ("File <slot> is required" or the type message) or passed on to the
\* handler; it was not answered by the error handler for an exception.
C23_AsStated ==
    \A c \in Conns :
        Done(c) /\ ~Oversized(req[c]) /\ MissingRequired(req[c]) = {} =>
            /\ res[c] # errorHandler
            /\ FileResponse(req[c], res[c]) \/ res[c] \in {Saved, Failed}


----------------------------------------------------------------------------
(* C24 *)

\* every upload the request needs was stored and its add() resolved
AllSucceeded(c) ==
    /\ {putLog[i].slot : i \in {j \in PutsBy(req[c].no) : putLog[j].state = "stored"}}
            = {k \in 1..3 : hasFile(req[c], k)}
    /\ WrittenBy(req[c].no) # {}

\* C24: a request in the handler is eventually answered, by the handler; while it
\* is in the handler, in an upload or in the add() it has no response; the
\* handler's response is 200 "Data berhasil disimpan" exactly when every upload
\* and the add() succeeded and is the 500 otherwise; and a response, once sent,
\* is never replaced by another.
C24_ExactlyOneResponse ==
    /\ \A c \in Conns :
        (pc[c] = "handler") ~> (Done(c) /\ res[c] \in {Saved, Failed})
    /\ [](\A c \in Conns :
            /\ pc[c] \in {"handler", "uploading", "adding"} => res[c] = NoRes
            /\ Done(c) /\ res[c] \in {Saved, Failed} =>
                /\ res[c] = Saved <=> AllSucceeded(c)
                /\ res[c].status = 200 <=> AllSucceeded(c)
                /\ res[c].status = 500 <=> ~AllSucceeded(c))
    /\ [][\A c \in Conns : res[c] # NoRes => res'[c] = res[c]]_vars

\* both connections reached the handler and are answered: one 200, the other
\* 500 after its add() rejected
C24_Witness ==
    \E c, d \in Conns :
        /\ Done(c) /\ res[c].status = 200 /\ AllSucceeded(c)
        /\ Done(d) /\ res[d].status = 500 /\ AddRejected(req[d].no)
        /\ Cardinality(PutsBy(req[d].no)) = 3


----------------------------------------------------------------------------
(* C25 *)

\* C25: in server.js no URL constant of a handler is null, so the null
\* alternative of the upload expressions is never taken; every add() is called
\* after exactly three uploads of its request, one per slot, all stored; and the
\* three URL fields of every document of every collection are URLs, not null.
C25_ThreeUrlsAlways ==
    /\ \A c \in Conns : \A k \in 1..Len(urls[c]) : urls[c][k] # Null /\ urls[c][k].t = "string"
    /\ \A i \in 1..Len(addLog) :
        LET mine == {j \in 1..Len(putLog) : putLog[j].no = addLog[i].no}
        IN  /\ Cardinality(mine) = 3
            /\ {putLog[j].slot : j \in mine} = {1, 2, 3}
            /\ \A j \in mine : putLog[j].state = "stored"
    /\ \A p \in Paths : \A i \in 1..Len(db[p]) :
        \A u \in {"suratPengantarUrl", "suratPermohonanUrl", "proposalUrl", "ktpUrl"}
                    \cap DOMAIN db[p][i] :
            db[p][i][u] # Null /\ db[p][i][u].t = "string"
    /\ \A p \in Paths : \A i \in 1..Len(db[p]) :
        Cardinality({"suratPengantarUrl", "suratPermohonanUrl", "proposalUrl", "ktpUrl"}
                        \cap DOMAIN db[p][i]) = 3

\* an internship document with its three URLs, written after three uploads
C25_Witness ==
    /\ Len(db["pelayanan/magang/magang"]) = 1
    /\ \A u \in {"suratPermohonanUrl", "proposalUrl", "ktpUrl"} :
        db["pelayanan/magang/magang"][1][u].t = "string"
    /\ Len(putLog) = 3
    /\ Len(addLog) = 1


----------------------------------------------------------------------------
(* C26 *)

\* a response with the names of its route replaced by their positions in the
\* route's schemas: the i-th required field, the i-th file slot
Shape(c) ==
    LET r == req[c]
        x == res[c]
        fields == requiredFields(r.route)
        named == {i \in 1..Len(fields) : x.message = fields[i] \o " is required"}
        lacking == {i \in 1..3 : x.message = IsRequired(r.route, i)}
        wrong == {i \in 1..3 : x.message = MustBe(r.route, i)}
    IN  IF named # {} THEN <<x.status, "<field> is required", Min(named)>>
        ELSE IF lacking # {} THEN <<x.status, "File <slot> is required", Min(lacking)>>
        ELSE IF wrong # {} THEN <<x.status, "File <slot> must be", Min(wrong)>>
        ELSE <<x.status, x.message, 0>>

\* what became of the upload of each slot of the request, and of its add()
PutStates(no) ==
    [k \in 1..3 |->
        LET js == {j \in PutsBy(no) : putLog[j].slot = k}
        IN  IF js = {} THEN "none" ELSE putLog[CHOOSE j \in js : TRUE].state]

AddStates(no) == {addLog[i].state : i \in AddsBy(no)}

\* the request is past the middleware: answered by a validator or in the handler
Validated(c) == Done(c) \/ PastFileValidator(c)

----------------------------------------------------------------------------
(* C27 *)

\* the slots of a request that hold a file
PresentSlots(r) == {i \in 1..3 : r.multipart /\ r.files[i] # NoFile}

\* the answered request of connection c has every required field, and none of
\* its uploads failed nor was its add() rejected
CompleteAndUnfailed(c) ==
    /\ Done(c)
    /\ MissingRequired(req[c]) = {}
    /\ NoFailureOf(req[c].no)

\* the request of connection c was answered 200 after one stored upload for each
\* slot with a file, opened in slot order, and one document, the only one of its
\* collection, whose URL field is null for each slot without file and the URL of
\* the request's upload for each slot with one
AcceptedWithItsFiles(c) ==
    LET r == req[c]
        mine == PutsBy(r.no)
    IN  /\ res[c] = Saved
        /\ Cardinality(mine) = Cardinality(PresentSlots(r))
        /\ {putLog[j].slot : j \in mine} = PresentSlots(r)
        /\ \A j \in mine : putLog[j].state = "stored" /\ Stored(putLog[j].name)
        /\ UploadsInOrder(r.no)
        /\ Cardinality(AddsBy(r.no)) = 1
        /\ Cardinality(WrittenBy(r.no)) = 1
        /\ Len(db[collectionPath(r.route)]) = 1
        /\ \A p \in Paths \ {collectionPath(r.route)} : db[p] = << >>
        /\ \A i \in 1..3 :
            LET u == RecordOf(c)[urlFields(r.route)[i]]
            IN  IF i \in PresentSlots(r)
                THEN u # Null /\ u.t = "string" /\ u = OwnUrl(r.no, i)
                ELSE u = Null

\* C27 as stated: in server.txt every answered request with all required fields,
\* whichever of its slots hold files and of whatever types, none of whose uploads
\* failed and whose add() was not rejected, was answered 200 after one upload per
\* slot with a file and has its one document with null for each slot without.
C27_AsStated ==
    \A c \in Conns : CompleteAndUnfailed(c) => AcceptedWithItsFiles(c)

\* C27: in server.txt a request with all required fields is never answered 400,
\* whichever slots hold files and of whatever types, and opens uploads only for
\* slots that hold a file, each once; when no file of it is above the 10 MB
\* limit, none of its uploads failed and its add() was not rejected, it was
\* answered 200 after exactly one stored upload per slot with a file, in slot
\* order, and its one document has null in the URL field of each slot without
\* file and the upload's URL in that of each slot with one. A request with a
\* file above the limit is answered 500 by the upload middleware and uploads
\* and adds nothing.
C27_OptionalSlots ==
    \A c \in Conns :
        req[c] # NoReq /\ MissingRequired(req[c]) = {} =>
            /\ \A j \in PutsBy(req[c].no) : putLog[j].slot \in PresentSlots(req[c])
            /\ \A i, j \in PutsBy(req[c].no) : putLog[i].slot = putLog[j].slot => i = j
            /\ Done(c) => res[c].status # 400
            /\ CompleteAndUnfailed(c) /\ ~Oversized(req[c]) => AcceptedWithItsFiles(c)
            /\ Done(c) /\ Oversized(req[c]) =>
                /\ res[c] = errorHandler
                /\ PutsBy(req[c].no) = {} /\ AddsBy(req[c].no) = {}

\* a request with only its second slot filled, by an executable, was answered 200:
\* one upload, and a document with null, the upload's URL, null
C27_Witness ==
    \E c \in Conns :
        /\ Done(c) /\ res[c] = Saved
        /\ PresentSlots(req[c]) = {2}
        /\ req[c].files[2].mimetype = "application/x-msdownload"
        /\ Len(putLog) = 1 /\ putLog[1].slot = 2 /\ putLog[1].state = "stored"
        /\ RecordOf(c)[urlFields(req[c].route)[1]] = Null
        /\ RecordOf(c)[urlFields(req[c].route)[2]] = putLog[1].url
        /\ RecordOf(c)[urlFields(req[c].route)[3]] = Null

====
